---- MODULE Spec2Model ----
(***************************************************************************)
(* Batch CV-to-job matching: the process_cvs orchestrator of               *)
(* api/process_cvs.py, with the storage backend and the model provider as  *)
(* its environment.  One action per step of the run: each step is one      *)
(* external call (storage read, storage write, provider call) together     *)
(* with the local computation that follows it in the code.                 *)
(***************************************************************************)
EXTENDS Integers, Sequences, FiniteSets, TLC

(***************************************************************************)
(* Bounds of the model.                                                    *)
(***************************************************************************)
MaxEvals == 2

(***************************************************************************)
(* JSON / database values.  Every value is a record of the same shape so   *)
(* that values of different Python types can be compared:                  *)
(*   t = "absent"  key not in the mapping                                  *)
(*   t = "null"    None                                                    *)
(*   t = "str"     a string, s its characters                              *)
(*   t = "int"     an integer n                                            *)
(*   t = "float"   a finite float, n its value in tenths                   *)
(*   t = "inf"     the float infinity (json.loads of Infinity or 1e999)    *)
(*   t = "list"    a list of n elements                                    *)
(*   t = "obj"     a mapping of n keys                                     *)
(***************************************************************************)
JAbsent == [t |-> "absent", s |-> <<>>, n |-> 0]
JNull == [t |-> "null", s |-> <<>>, n |-> 0]
JStr(cs) == [t |-> "str", s |-> cs, n |-> 0]
JInt(k) == [t |-> "int", s |-> <<>>, n |-> k]
JFloat(tenths) == [t |-> "float", s |-> <<>>, n |-> tenths]
JInf == [t |-> "inf", s |-> <<>>, n |-> 0]
JList(k) == [t |-> "list", s |-> <<>>, n |-> k]
JObj(k) == [t |-> "obj", s |-> <<>>, n |-> k]

\* Python truthiness of a value (None, "", 0, 0.0, [] and {} are falsy).
Truthy(v) ==
    CASE v.t \in {"absent", "null"} -> FALSE
      [] v.t = "str" -> v.s # <<>>
      [] v.t \in {"int", "float", "list", "obj"} -> v.n # 0
      [] OTHER -> TRUE

\* dict.get(key): None for a missing key.
Get(d, key) == IF d[key].t = "absent" THEN JNull ELSE d[key]

\* dict.get(key, default).
GetOr(d, key, default) == IF d[key].t = "absent" THEN default ELSE d[key]

(***************************************************************************)
(* Strings are sequences of one-character strings.                         *)
(***************************************************************************)
Upper == {"A", "C", "D", "E", "F", "G", "I", "L", "M", "N", "O", "P", "T", "V", "Y"}

LowerChar(c) ==
    CASE c = "A" -> "a" [] c = "C" -> "c" [] c = "D" -> "d" [] c = "F" -> "f"
      [] c = "I" -> "i" [] c = "N" -> "n" [] c = "O" -> "o" [] c = "P" -> "p"
      [] c = "T" -> "t" [] c = "V" -> "v" [] c = "Y" -> "y" [] c = "E" -> "e"
      [] c = "G" -> "g" [] c = "L" -> "l" [] c = "M" -> "m"
      [] OTHER -> c

\* str.lower()
Lower(s) == [i \in 1..Len(s) |-> LowerChar(s[i])]

\* str.startswith(p)
StartsWith(s, p) == Len(s) >= Len(p) /\ SubSeq(s, 1, Len(p)) = p

\* str.endswith(p)
EndsWith(s, p) == Len(s) >= Len(p) /\ SubSeq(s, Len(s) - Len(p) + 1, Len(s)) = p

CvPrefix == <<"c", "v", " ">>
PdfSuffix == <<".", "p", "d", "f">>
CvConFoto == <<"C", "V", " ", "c", "o", "n", " ", "f", "o", "t", "o">>

(***************************************************************************)
(* int(float(v)) as Python computes it, for the values above.  The result  *)
(* is the integer, or the exception the conversion raises.  A numeric      *)
(* string is [sign] digits [. digits] with at least one digit; "inf",      *)
(* "infinity" and "nan" are accepted by float() in any case.               *)
(***************************************************************************)
Digits == {"0", "1", "2", "3", "4", "5", "6", "7", "8", "9"}

DigitVal(c) ==
    CASE c = "0" -> 0 [] c = "1" -> 1 [] c = "2" -> 2 [] c = "3" -> 3
      [] c = "4" -> 4 [] c = "5" -> 5 [] c = "6" -> 6 [] c = "7" -> 7
      [] c = "8" -> 8 [] c = "9" -> 9

AllDigits(s) == \A i \in 1..Len(s) : s[i] \in Digits

RECURSIVE ToNat(_)
ToNat(s) ==
    IF s = <<>> THEN 0
    ELSE 10 * ToNat(SubSeq(s, 1, Len(s) - 1)) + DigitVal(s[Len(s)])

Raised(kind) == [kind |-> kind, n |-> 0]
Converted(k) == [kind |-> "ok", n |-> k]

\* int(float(s)) for a string s.
IntOfFloatStr(s) ==
    LET signed == s # <<>> /\ s[1] \in {"+", "-"}
        neg == s # <<>> /\ s[1] = "-"
        body == IF signed THEN Tail(s) ELSE s
        low == Lower(body)
        dots == {i \in 1..Len(body) : body[i] = "."}
        dot == CHOOSE i \in dots : TRUE
        ip == IF dots = {} THEN body ELSE SubSeq(body, 1, dot - 1)
        fp == IF dots = {} THEN <<>> ELSE SubSeq(body, dot + 1, Len(body))
    IN  IF low \in {<<"i", "n", "f">>, <<"i", "n", "f", "i", "n", "i", "t", "y">>}
          THEN Raised("OverflowError")
        ELSE IF low = <<"n", "a", "n">> THEN Raised("ValueError")
        ELSE IF /\ Cardinality(dots) <= 1
                /\ AllDigits(ip) /\ AllDigits(fp)
                /\ Len(ip) + Len(fp) >= 1
          THEN Converted(IF neg THEN 0 - ToNat(ip) ELSE ToNat(ip))
        ELSE Raised("ValueError")

\* int(float(v)): truncation toward zero.
IntOfFloat(v) ==
    CASE v.t = "int" -> Converted(v.n)
      [] v.t = "float" ->
           Converted(IF v.n >= 0 THEN v.n \div 10 ELSE 0 - ((0 - v.n) \div 10))
      [] v.t = "inf" -> Raised("OverflowError")
      [] v.t = "str" -> IntOfFloatStr(v.s)
      [] OTHER -> Raised("TypeError")

(***************************************************************************)
(* Work selection (process_cvs, step 3).                                   *)
(***************************************************************************)
\* Mutant of NameNeedsUpdate: the comparison without lower().
NameNeedsUpdate_CaseSensitive(name) ==
    \/ StartsWith(name, CvPrefix)
    \/ EndsWith(name, PdfSuffix)
    \/ name = CvConFoto

\* name_needs_update: the stored full_name still looks like a file name.
NameNeedsUpdate(name) ==
    \/ StartsWith(Lower(name), CvPrefix)
    \/ EndsWith(Lower(name), PdfSuffix)
    \/ name = CvConFoto

\* phone_needs_update: not candidate.get('phone')
PhoneNeedsUpdate(candidate) == ~Truthy(Get(candidate, "phone"))

\* Mutant of KeepJob: the filter inverted, the scored jobs are kept.
KeepJob_Scored(job_id, existing) == job_id \in existing

\* "j['id'] not in existing_job_ids"
KeepJob(job_id, existing) == job_id \notin existing

\* Mutant of NeedsUpdate: every candidate is re-evaluated in full.
NeedsUpdate_Always(candidate) == TRUE

\* "if name_needs_update or phone_needs_update"
NeedsUpdate(candidate) ==
    NameNeedsUpdate(candidate.full_name.s) \/ PhoneNeedsUpdate(candidate)

\* jobs_to_evaluate: all fetched jobs, or those without a score row.
JobsToEvaluate(candidate, fetched, existing) ==
    IF NeedsUpdate(candidate) THEN fetched
    ELSE SelectSeq(fetched, LAMBDA j : KeepJob(j, existing))

\* Mutant of BuildPrompt: the prompt lists the first job only.
BuildPrompt_FirstJob(batch) == SubSeq(batch, 1, 1)

\* jobs_section of the prompt: one block per job of jobs_to_evaluate, in order.
BuildPrompt(batch) == [i \in 1..Len(batch) |-> batch[i]]

\* Mutant of NothingToEvaluate: the skip of an empty batch is gone.
NothingToEvaluate_Never(batch) == FALSE

\* "if not jobs_to_evaluate"
NothingToEvaluate(batch) == batch = <<>>

(***************************************************************************)
(* Reconciling the model's answer (process_cvs, step 5).                   *)
(***************************************************************************)
Fields == {"full_name", "email", "phone", "years_of_experience", "education_level"}

NoInfo == [f \in Fields |-> JAbsent]

\* Mutant of IncludeField: "is not None" in place of the truth test.
IncludeField_NotNone(v) == v.t # "null"

\* "if extracted.get(f): update_data[f] = extracted[f]"
IncludeField(v) == Truthy(v)

\* The exceptions the coercion of years_of_experience swallows.
CaughtByCoercion == {"ValueError", "TypeError"}

\* update_data as built from extracted_info; raised is the exception that
\* leaves the block, "none" when there is none.
BuildUpdate(extracted) ==
    LET y == Get(extracted, "years_of_experience")
        conv == IntOfFloat(y)
        tried == y.t # "null"
    IN  [raised |-> IF tried /\ conv.kind \notin CaughtByCoercion \cup {"ok"}
                    THEN conv.kind ELSE "none",
         data |-> [f \in Fields |->
                    IF f = "years_of_experience"
                    THEN IF tried /\ conv.kind = "ok" THEN JInt(conv.n) ELSE JAbsent
                    ELSE IF IncludeField(Get(extracted, f)) THEN extracted[f]
                    ELSE JAbsent]]

\* Mutant of FirstWrite: the candidate update is left out.
FirstWrite_Scores(data) == "Upsert"

\* "if update_data:" the candidate update comes first when there is one, then
\* the loop over the evaluations.
FirstWrite(data) == IF data = NoInfo THEN "Upsert" ELSE "UpdateCandidate"

\* update(update_data).eq("id", id): a partial update of one row.
ApplyUpdate(row, data) ==
    [f \in DOMAIN row |->
        IF f \in Fields /\ data[f].t # "absent" THEN data[f] ELSE row[f]]

ScoreFields == {"overall_score", "experience_score", "skills_score",
                "education_score", "location_score"}

EvalFields == ScoreFields \cup {"analysis"}

\* Mutant of Requested: the sanity check is gone.
Requested_Any(job_id, batch) == TRUE

\* "any(j['id'] == job_id for j in jobs_to_evaluate)"
Requested(job_id, batch) == \E i \in 1..Len(batch) : batch[i] = job_id

\* Mutant of ScoreKey: the row is keyed by the first candidate's id.
ScoreKey_FirstCandidate(candidate_id, job_id) ==
    [candidate_id |-> 1, job_posting_id |-> job_id]

\* The key columns of score_data.
ScoreKey(candidate_id, job_id) ==
    [candidate_id |-> candidate_id, job_posting_id |-> job_id]

\* score_data of one evaluation entry.
ScoreData(candidate_id, job_id, eval_data) ==
    [candidate_id |-> ScoreKey(candidate_id, job_id).candidate_id,
     job_posting_id |-> ScoreKey(candidate_id, job_id).job_posting_id,
     overall_score |-> GetOr(eval_data, "overall_score", JInt(0)),
     experience_score |-> GetOr(eval_data, "experience_score", JInt(0)),
     skills_score |-> GetOr(eval_data, "skills_score", JInt(0)),
     education_score |-> GetOr(eval_data, "education_score", JInt(0)),
     location_score |-> GetOr(eval_data, "location_score", JInt(0)),
     score_details |-> GetOr(eval_data, "analysis", JObj(0))]

\* Mutant of Upsert: a plain insert, no conflict target.
Upsert_Insert(table, row) == table \cup {row}

\* upsert(score_data, on_conflict="candidate_id, job_posting_id")
Upsert(table, row) ==
    {r \in table : ~(r.candidate_id = row.candidate_id
                     /\ r.job_posting_id = row.job_posting_id)} \cup {row}

\* select("job_posting_id").eq("candidate_id", id), as a set
ExistingJobIds(table, candidate_id) ==
    {r.job_posting_id : r \in {x \in table : x.candidate_id = candidate_id}}

\* Mutant of NextPc: the loop is left instead of continued.
NextPc_Break(i, n) == "Done"

\* Where the loop goes after candidate i of n: "continue", or the end of the loop.
NextPc(i, n) == IF i < n THEN "Candidate" ELSE "Done"

\* "if not result": the provider's empty mapping.
IsEmptyResult(r) == r.empty

(***************************************************************************)
(* The environment: the job and candidate tables the run reads, and the    *)
(* answers the model provider can give.                                    *)
(***************************************************************************)
JobIds == {"J1", "J2"}

\* A job id that is in no table: an id the model made up.
UnknownJob == "JX"

AnswerKeys == JobIds \cup {UnknownJob}

Phone == JStr(<<"5", "5", "5", "-", "1", "2", "3", "4">>)
CvUrl == JStr(<<"u">>)

CandidateRow(name, phone, url) ==
    [full_name |-> JStr(name), email |-> JNull, phone |-> phone,
     years_of_experience |-> JNull, education_level |-> JNull,
     cv_file_url |-> url]

Ann == <<"A", "n", "n">>

\* Stored names: real names (two of them near misses of the placeholder
\* patterns) and file-name placeholders in both cases.
RealNames == {Ann, <<"C", "V", "s">>, <<"p", "d", "f">>}

PlaceholderNames ==
    {<<"C", "V", " ", "A">>, <<"c", "v", " ", "a">>, <<"a", ".", "P", "D", "F">>,
     <<"a", ".", "p", "d", "f">>, CvConFoto}

Profiles ==
    {CandidateRow(nm, Phone, CvUrl) : nm \in RealNames \cup PlaceholderNames}
    \cup {CandidateRow(Ann, ph, CvUrl) : ph \in {JNull, JStr(<<>>)}}
    \cup {CandidateRow(Ann, Phone, JNull)}

Complete == CandidateRow(Ann, Phone, CvUrl)
Placeholder == CandidateRow(<<"C", "V", " ", "A">>, Phone, CvUrl)
NoPhone == CandidateRow(Ann, JNull, CvUrl)

\* The candidates table: empty, one candidate of any profile, or two candidates.
CandidateTables ==
    {<<>>} \cup {<<a>> : a \in Profiles}
    \cup {<<Complete, Complete>>, <<Placeholder, Complete>>, <<Complete, NoPhone>>}

Info(name, email, phone, years, education) ==
    [full_name |-> name, email |-> email, phone |-> phone,
     years_of_experience |-> years, education_level |-> education]

Bo == JStr(<<"B", "o">>)

FullInfo ==
    Info(Bo, JStr(<<"b", "@", "x">>), Phone, JStr(<<"3", ".", "0">>),
         JStr(<<"M", "S", "c">>))

\* extracted_info as the model may return it.
ExtractedInfos ==
    {NoInfo,
     Info(JNull, JAbsent, Phone, JAbsent, JAbsent),
     FullInfo,
     Info(Bo, JNull, Phone, JStr(<<"n", "/", "a">>), JNull),
     Info(Bo, JNull, Phone, JStr(<<"i", "n", "f">>), JNull),
     Info(JStr(<<>>), JStr(<<>>), JStr(<<>>), JStr(<<>>), JStr(<<>>)),
     Info(JAbsent, JAbsent, JAbsent, JFloat(37), JList(0))}

\* An evaluation with every field, each score in range.
EvalFull ==
    [f \in EvalFields |-> IF f = "analysis" THEN JObj(1) ELSE JInt(80)]

\* An evaluation with no field at all.
EvalBare == [f \in EvalFields |-> JAbsent]

\* An evaluation whose scores are not what the prompt asks for: above 100,
\* a fraction, null, a word and a negative number.
EvalOdd ==
    [overall_score |-> JInt(150), experience_score |-> JFloat(875),
     skills_score |-> JNull, education_score |-> JStr(<<"h", "i", "g", "h">>),
     location_score |-> JInt(0 - 5), analysis |-> JAbsent]

EvalShapes == {EvalFull, EvalBare, EvalOdd}

\* One entry of "evaluations".  The shapes other than the full one are
\* returned for the first job only.
Entries ==
    {e \in [key : AnswerKeys, data : EvalShapes] :
        e.data # EvalFull => e.key = "J1"}

\* "evaluations": a mapping, so no key twice, in insertion order.
EvaluationSeqs ==
    UNION {{e \in [1..n -> Entries] :
              \A i, j \in 1..n : i # j => e[i].key # e[j].key} : n \in 0..MaxEvals}

EmptyResult == [empty |-> TRUE, extracted_info |-> NoInfo, evaluations |-> <<>>]

\* The parsed answers: every extracted_info with full evaluations, and the
\* other shapes of evaluation with no extracted info or all of it.
Results ==
    {r \in [empty : {FALSE}, extracted_info : ExtractedInfos,
            evaluations : EvaluationSeqs] :
        \/ r.extracted_info \in {NoInfo, FullInfo}
        \/ \A i \in 1..Len(r.evaluations) : r.evaluations[i].data = EvalFull}

\* With two candidates in the table the answers are drawn from a smaller set:
\* no extracted info or all of it, and evaluations of table jobs in id order.
LeanResults ==
    {r \in Results :
        /\ r.extracted_info \in {NoInfo, FullInfo}
        /\ \A i \in 1..Len(r.evaluations) :
              /\ r.evaluations[i].key \in JobIds
              /\ r.evaluations[i].data = EvalFull
              /\ i > 1 => r.evaluations[i - 1].key = "J1"}

\* The answers the provider may give in a run over n candidates.
Answers(n) == IF n <= 1 THEN Results ELSE LeanResults

\* The orders in which a select without ORDER BY may return a set of rows.
Orders(S) ==
    {q \in [1..Cardinality(S) -> S] : \A i, j \in 1..Cardinality(S) : i # j => q[i] # q[j]}

Range(q) == {q[i] : i \in 1..Len(q)}

\* The stored name, compared case-insensitively, starts with "cv ", ends with
\* ".pdf" or is "CV con foto", or the stored phone is missing or empty.
PlaceholderLike(row) ==
    LET nm == row.full_name.s
        n == Len(nm)
    IN  \/ n >= 3 /\ Lower(SubSeq(nm, 1, 3)) = <<"c", "v", " ">>
        \/ n >= 4 /\ Lower(SubSeq(nm, n - 3, n)) = <<".", "p", "d", "f">>
        \/ Lower(nm) = Lower(CvConFoto)
        \/ row.phone.t \in {"absent", "null"}
        \/ row.phone = JStr(<<>>)

\* Every candidate has complete info and every (candidate, open job) pair has
\* a score row.
CompleteAndScored(open, table, rows) ==
    \A i \in 1..Len(table) :
        /\ ~PlaceholderLike(table[i])
        /\ \A j \in open :
              \E r \in rows : r.candidate_id = i /\ r.job_posting_id = j

\* An answer as convergence assumes it: a full_name that is no placeholder, a
\* non-empty phone and an evaluation for each requested job.
ConvergingAnswer(r, requested) ==
    /\ ~r.empty
    /\ r.extracted_info.full_name.t = "str"
    /\ r.extracted_info.phone.t = "str"
    /\ ~PlaceholderLike([full_name |-> r.extracted_info.full_name,
                         phone |-> r.extracted_info.phone])
    /\ \A j \in Range(requested) :
          \E i \in 1..Len(r.evaluations) : r.evaluations[i].key = j

\* The ways an iteration ends that convergence assumes away: no CV text, no
\* answer, a storage write that fails.
Unfavourable == {"no_url", "download_error", "empty_text", "empty_result",
                 "write_error"}

(***************************************************************************)
(* The model providers (llm_factory.py).  A response text is a sequence of *)
(* pieces: prose, white space, the two fence markers and a JSON document.  *)
(***************************************************************************)
MaxPieces == 4

Prose == "text"
Space == " "
\* The markers: three backticks, and three backticks followed by json.
Fence == "<fence>"
FenceJson == "<fence json>"
Doc == "{...}"

Pieces == {Prose, Space, Fence, FenceJson, Doc}

\* The pieces that contain the three backticks.
FenceLike == {Fence, FenceJson}

Texts == UNION {[1..n -> Pieces] : n \in 0..MaxPieces}

\* str.replace(piece, "")
Remove(text, piece) == SelectSeq(text, LAMBDA x : x # piece)

\* str.strip()
Strip(text) ==
    LET solid == {i \in 1..Len(text) : text[i] # Space}
        Min(S) == CHOOSE i \in S : \A j \in S : i <= j
        Max(S) == CHOOSE i \in S : \A j \in S : i >= j
    IN  IF solid = {} THEN <<>> ELSE SubSeq(text, Min(solid), Max(solid))

\* The positions of the pieces of text that hold a marker.
MarkersAt(text, markers) == {i \in 1..Len(text) : text[i] \in markers}

FirstOf(S) == CHOOSE i \in S : \A j \in S : i <= j

\* text.split(marker)[0]
SplitHead(text, markers) ==
    IF MarkersAt(text, markers) = {} THEN text
    ELSE SubSeq(text, 1, FirstOf(MarkersAt(text, markers)) - 1)

\* text.split(marker)[1], for a text that holds the marker
SplitSecond(text, markers) ==
    LET rest == SubSeq(text, FirstOf(MarkersAt(text, markers)) + 1, Len(text))
    IN  SplitHead(rest, markers)

\* What a step of generate_analysis gives: a value, or the exception raised.
Gives(v) == [raised |-> "none", value |-> v]
Raises(kind) == [raised |-> kind, value |-> <<>>]

\* json.loads(text): white space around the one document is accepted.
json_loads(text) ==
    IF Strip(text) = <<Doc>> THEN Gives(<<Doc>>) ELSE Raises("JSONDecodeError")

\* GoogleProvider: both markers are replaced by "", then strip().
GoogleText(text) == Strip(Remove(Remove(text, FenceJson), Fence))

\* OllamaProvider: the block after the first marker, up to the next one.
OllamaText(content) ==
    IF MarkersAt(content, {FenceJson}) # {}
    THEN Strip(SplitHead(SplitSecond(content, {FenceJson}), FenceLike))
    ELSE IF MarkersAt(content, FenceLike) # {}
    THEN Strip(SplitHead(SplitSecond(content, FenceLike), FenceLike))
    ELSE content

\* OpenAIProvider: the message content is parsed as it is.
OpenAIText(content) == content

\* What the transport call gives: an error raised by the client, a response
\* without content, or a response text.
TransportError == [kind |-> "error", text |-> <<>>]
NoContent == [kind |-> "none", text |-> <<>>]
Responses == {TransportError, NoContent} \cup [kind : {"text"}, text : Texts]

\* The try block of a generate_analysis: the call, the reading of the content
\* (which raises noContent when there is none), the cleaning, json.loads.
TryGenerate(response, noContent, cleaned) ==
    CASE response.kind = "error" -> Raises("TransportError")
      [] response.kind = "none" -> Raises(noContent)
      [] OTHER -> json_loads(cleaned)

ExceptionKinds ==
    {"TransportError", "ValueError", "TypeError", "KeyError", "JSONDecodeError"}

\* Mutant of CaughtByProvider: only the parse error is caught.
CaughtByProvider_ParseOnly == {"JSONDecodeError"}

\* "except Exception": every exception of the model is caught.
CaughtByProvider == ExceptionKinds

\* The empty mapping {}.
EmptyMapping == Gives(<<>>)

\* "except Exception as e: return {}"
OrEmpty(got) == IF got.raised \in CaughtByProvider THEN EmptyMapping ELSE got

\* GoogleProvider.generate_analysis
GoogleGenerateAnalysis(response) ==
    OrEmpty(TryGenerate(response, "ValueError", GoogleText(response.text)))

\* OpenAIProvider.generate_analysis
OpenAIGenerateAnalysis(response) ==
    OrEmpty(TryGenerate(response, "TypeError", OpenAIText(response.text)))

\* OllamaProvider.generate_analysis
OllamaGenerateAnalysis(response) ==
    OrEmpty(TryGenerate(response, "KeyError", OllamaText(response.text)))

(***************************************************************************)
(* Provider construction (LLMFactory.create_provider) from the process     *)
(* environment.  An unset variable is None.                                *)
(***************************************************************************)
Google == <<"g", "o", "o", "g", "l", "e">>
OpenAI == <<"o", "p", "e", "n", "a", "i">>
Ollama == <<"o", "l", "l", "a", "m", "a">>

ProviderNames ==
    {Google, OpenAI, Ollama, <<"G", "o", "o", "g", "l", "e">>,
     <<"a", "z", "u", "r", "e">>}

ApiKey == JStr(<<"k">>)

Environs ==
    [LLM_PROVIDER : {JNull} \cup {JStr(nm) : nm \in ProviderNames},
     GOOGLE_API_KEY : {JNull, JStr(<<>>), ApiKey},
     OPENAI_API_KEY : {JNull, JStr(<<>>), ApiKey}]

\* os.environ.get(name, default)
EnvironGet(v, default) == IF v.t = "null" THEN default ELSE v

\* llm_config["provider"] of process_cvs
ConfigProvider(environ) == EnvironGet(environ.LLM_PROVIDER, JStr(Google))

NoProvider == "none"

\* provider_type = config.get("provider", "google").lower()
ProviderType(config_provider) == Lower(config_provider.s)

\* Mutant of KeyMissing: the check of the key is gone.
KeyMissing_Never(api_key) == FALSE

\* "if not api_key"
KeyMissing(api_key) == ~Truthy(api_key)

\* LLMFactory.create_provider: the provider made, or the ValueError raised.
create_provider(config_provider, environ) ==
    LET provider_type == ProviderType(config_provider)
    IN  CASE provider_type = Google ->
               IF KeyMissing(environ.GOOGLE_API_KEY) THEN Raises("ValueError")
               ELSE Gives("google")
          [] provider_type = OpenAI ->
               IF KeyMissing(environ.OPENAI_API_KEY) THEN Raises("ValueError")
               ELSE Gives("openai")
          [] provider_type = Ollama -> Gives("ollama")
          [] OTHER -> Raises("ValueError")

\* The environment the runs of Spec were loaded with.
LoadedEnviron ==
    [LLM_PROVIDER |-> JNull, GOOGLE_API_KEY |-> ApiKey, OPENAI_API_KEY |-> JNull]

(***************************************************************************)
(* State.                                                                  *)
(***************************************************************************)
VARIABLES
    openJobs,           \* storage: ids of the job_postings rows with status "open"
    candDB,             \* storage: the candidates table, row i has id i
    scores,             \* storage: the candidate_scores table, a set of rows
    pc,                 \* position of the run
    jobs,               \* process_cvs: the fetched open jobs, in fetch order
    candidates,         \* process_cvs: the fetched candidates
    idx,                \* process_cvs: position of the loop in candidates
    jobs_to_evaluate,   \* process_cvs: the jobs selected for candidates[idx]
    prompt,             \* process_cvs: the job ids listed in the prompt
    result,             \* process_cvs: the provider's answer
    update_data,        \* process_cvs: the candidate update record
    k,                  \* process_cvs: position in result.evaluations
    upserts,            \* job ids upserted for candidates[idx], in order
    replaced,           \* job ids whose row an upsert for candidates[idx] replaced
    failedAt,           \* the step whose exception left process_cvs ("none")
    last,               \* how the previous iteration of this run ended
    retry,              \* per candidate: the batch of its last empty answer
    modelCalls,         \* provider calls made in this run
    writeCalls,         \* storage writes issued for candidates[idx]
    cleanStart,         \* this run started with CompleteAndScored
    converging,         \* so far this run met what convergence assumes
    environ,            \* the process environment
    llm_provider,       \* process_cvs: the provider made at import
    response,           \* the response of the last provider transport call
    analysis            \* what the last generate_analysis returned

store == <<openJobs, candDB, scores>>
locals == <<jobs_to_evaluate, prompt, result, update_data, k, upserts, replaced,
           writeCalls>>
history == <<failedAt, last, retry, modelCalls, cleanStart, converging>>
startup == <<environ, llm_provider>>
provider == <<response, analysis>>
vars == <<store, pc, jobs, candidates, idx, locals, history, startup, provider>>

NoResult == EmptyResult
NoRetry == [empty |-> FALSE, batch |-> {}]

\* No provider call was made yet.
NoCall == [kind |-> "no_call", text |-> <<>>]

\* The tables a run reads and the run's variables before its first step.
BeforeRun(opens, tables) ==
    /\ openJobs \in opens
    /\ candDB \in tables
    /\ scores = {}
    /\ jobs = <<>>
    /\ candidates = <<>>
    /\ idx = 0
    /\ jobs_to_evaluate = <<>>
    /\ prompt = <<>>
    /\ result = NoResult
    /\ update_data = NoInfo
    /\ k = 0
    /\ upserts = <<>>
    /\ replaced = {}
    /\ failedAt = "none"
    /\ last = "none"
    /\ retry = [i \in 1..Len(candDB) |-> NoRetry]
    /\ modelCalls = 0
    /\ writeCalls = 0
    /\ cleanStart = CompleteAndScored(openJobs, candDB, scores)
    /\ converging = TRUE
    /\ response = NoCall
    /\ analysis = EmptyMapping

\* The module is loaded, the provider made; the first run starts.
Init ==
    /\ BeforeRun(SUBSET JobIds, CandidateTables)
    /\ pc = "FetchJobs"
    /\ environ = LoadedEnviron
    /\ llm_provider = create_provider(ConfigProvider(LoadedEnviron), LoadedEnviron).value

ResetLocals ==
    /\ jobs_to_evaluate' = <<>>
    /\ prompt' = <<>>
    /\ result' = NoResult
    /\ update_data' = NoInfo
    /\ k' = 0
    /\ upserts' = <<>>
    /\ replaced' = {}
    /\ writeCalls' = 0

\* The iteration of candidates[idx] ends the way o says; the loop goes on.
EndIteration(o) ==
    /\ last' = o
    /\ retry' = [retry EXCEPT ![candidates[idx].id] =
                    IF o = "empty_result"
                    THEN [empty |-> TRUE, batch |-> Range(jobs_to_evaluate)]
                    ELSE IF jobs_to_evaluate # <<>> THEN NoRetry ELSE @]
    /\ idx' = idx + 1
    /\ pc' = NextPc(idx, Len(candidates))
    /\ converging' = (converging /\ o \notin Unfavourable)
    /\ ResetLocals

\* An exception leaves process_cvs at the given step.
Abort(step) ==
    /\ pc' = "Aborted"
    /\ failedAt' = step
    /\ converging' = FALSE
    /\ ResetLocals

(***************************************************************************)
(* Steps of process_cvs.                                                   *)
(***************************************************************************)
\* 1. Fetch all open job postings; none: return.
FetchJobs ==
    /\ pc = "FetchJobs"
    /\ \E fetched \in Orders(openJobs) :
          /\ jobs' = fetched
          /\ pc' = IF fetched = <<>> THEN "Done" ELSE "FetchCandidates"
    /\ UNCHANGED <<store, candidates, idx, locals, history>>
    /\ UNCHANGED <<startup, provider>>

\* The select of the open jobs raises.
FetchJobsFails ==
    /\ pc = "FetchJobs"
    /\ Abort("FetchJobs")
    /\ UNCHANGED <<store, jobs, candidates, idx, last, retry, modelCalls,
                   cleanStart>>
    /\ UNCHANGED <<startup, provider>>

\* 2. Fetch all candidates; none: return.
FetchCandidates ==
    /\ pc = "FetchCandidates"
    /\ candidates' = [i \in 1..Len(candDB) |-> [id |-> i, row |-> candDB[i]]]
    /\ idx' = 1
    /\ pc' = IF candDB = <<>> THEN "Done" ELSE "Candidate"
    /\ UNCHANGED <<store, jobs, locals, history>>
    /\ UNCHANGED <<startup, provider>>

\* The select of the candidates raises.
FetchCandidatesFails ==
    /\ pc = "FetchCandidates"
    /\ Abort("FetchCandidates")
    /\ UNCHANGED <<store, jobs, candidates, idx, last, retry, modelCalls,
                   cleanStart>>
    /\ UNCHANGED <<startup, provider>>

\* Loop head: a candidate without cv_file_url is skipped.
SkipNoUrl ==
    /\ pc = "Candidate"
    /\ ~Truthy(Get(candidates[idx].row, "cv_file_url"))
    /\ EndIteration("no_url")
    /\ UNCHANGED <<store, jobs, candidates, failedAt, modelCalls, cleanStart>>
    /\ UNCHANGED <<startup, provider>>

\* Download and text extraction: the download raises, the text is empty, or
\* there is text.
ReadCV ==
    /\ pc = "Candidate"
    /\ Truthy(Get(candidates[idx].row, "cv_file_url"))
    /\ \E how \in {"download_error", "empty_text", "text"} :
          IF how = "text"
          THEN /\ pc' = "FetchScores"
               /\ UNCHANGED <<idx, locals, last, retry, converging>>
          ELSE EndIteration(how)
    /\ UNCHANGED <<store, jobs, candidates, failedAt, modelCalls, cleanStart>>
    /\ UNCHANGED <<startup, provider>>

\* 3. Fetch the candidate's existing scores and select the jobs to evaluate;
\* 4. build the prompt.  Nothing to evaluate: skip the candidate.
SelectWork ==
    /\ pc = "FetchScores"
    /\ LET c == candidates[idx]
           selected == JobsToEvaluate(c.row, jobs, ExistingJobIds(scores, c.id))
       IN  IF NothingToEvaluate(selected)
           THEN EndIteration("nothing_to_do")
           ELSE /\ jobs_to_evaluate' = selected
                /\ prompt' = BuildPrompt(selected)
                /\ pc' = "Generate"
                /\ UNCHANGED <<idx, result, update_data, k, upserts, replaced,
                               writeCalls, last, retry, converging>>
    /\ UNCHANGED <<store, jobs, candidates, failedAt, modelCalls, cleanStart>>
    /\ UNCHANGED <<startup, provider>>

\* The select of the existing scores raises: it is outside every try block.
FetchScoresFails ==
    /\ pc = "FetchScores"
    /\ Abort("FetchScores")
    /\ UNCHANGED <<store, jobs, candidates, idx, last, retry, modelCalls,
                   cleanStart>>
    /\ UNCHANGED <<startup, provider>>

\* The provider call: one call with the one prompt.  generate_analysis returns
\* a parsed answer or the empty mapping; "if not result: continue".
Generate ==
    /\ pc = "Generate"
    /\ modelCalls' = modelCalls + 1
    /\ \E r \in Answers(Len(candidates)) \cup {EmptyResult} :
          IF IsEmptyResult(r)
          THEN EndIteration("empty_result")
          ELSE /\ result' = r
               /\ pc' = "Reconcile"
               /\ converging' = (converging /\ ConvergingAnswer(r, jobs_to_evaluate))
               /\ UNCHANGED <<idx, jobs_to_evaluate, prompt, update_data, k,
                              upserts, replaced, writeCalls, last, retry>>
    /\ UNCHANGED <<store, jobs, candidates, failedAt, cleanStart>>
    /\ UNCHANGED <<startup, provider>>

\* 5. Build update_data from extracted_info.  An exception the coercion does
\* not swallow reaches the "except Exception" of the iteration.
Reconcile ==
    /\ pc = "Reconcile"
    /\ LET u == BuildUpdate(result.extracted_info)
       IN  IF u.raised # "none"
           THEN EndIteration("reconcile_error")
           ELSE /\ update_data' = u.data
                /\ k' = 1
                /\ pc' = FirstWrite(u.data)
                /\ UNCHANGED <<idx, jobs_to_evaluate, prompt, result, upserts, replaced,
                               writeCalls, last, retry, converging>>
    /\ UNCHANGED <<store, jobs, candidates, failedAt, modelCalls, cleanStart>>
    /\ UNCHANGED <<startup, provider>>

\* "if update_data:" the partial update of the candidate's row.
UpdateCandidate ==
    /\ pc = "UpdateCandidate"
    /\ writeCalls' = writeCalls + 1
    /\ candDB' = [candDB EXCEPT ![candidates[idx].id] = ApplyUpdate(@, update_data)]
    /\ pc' = "Upsert"
    /\ UNCHANGED <<openJobs, scores, jobs, candidates, idx, jobs_to_evaluate,
                   prompt, result, update_data, k, upserts, replaced, failedAt,
                   last, retry, modelCalls, cleanStart, converging>>
    /\ UNCHANGED <<startup, provider>>

\* The update raises: caught by the iteration's "except Exception".
UpdateCandidateFails ==
    /\ pc = "UpdateCandidate"
    /\ EndIteration("write_error")
    /\ UNCHANGED <<store, jobs, candidates, failedAt, modelCalls, cleanStart>>
    /\ UNCHANGED <<startup, provider>>

\* An evaluation keyed by a job that was not requested is skipped.
SkipUnrequested ==
    /\ pc = "Upsert"
    /\ k <= Len(result.evaluations)
    /\ ~Requested(result.evaluations[k].key, jobs_to_evaluate)
    /\ k' = k + 1
    /\ UNCHANGED <<store, pc, jobs, candidates, idx, jobs_to_evaluate, prompt,
                   result, update_data, upserts, replaced, writeCalls, history>>
    /\ UNCHANGED <<startup, provider>>

\* The score of a requested job is upserted.
UpsertScore ==
    /\ pc = "Upsert"
    /\ k <= Len(result.evaluations)
    /\ Requested(result.evaluations[k].key, jobs_to_evaluate)
    /\ writeCalls' = writeCalls + 1
    /\ scores' = Upsert(scores, ScoreData(candidates[idx].id,
                                          result.evaluations[k].key,
                                          result.evaluations[k].data))
    /\ upserts' = Append(upserts, result.evaluations[k].key)
    /\ replaced' = replaced \cup
          {r.job_posting_id :
              r \in {x \in scores :
                       /\ x.candidate_id = candidates[idx].id
                       /\ x.job_posting_id = result.evaluations[k].key
                       /\ x # ScoreData(candidates[idx].id,
                                        result.evaluations[k].key,
                                        result.evaluations[k].data)}}
    /\ k' = k + 1
    /\ UNCHANGED <<openJobs, candDB, pc, jobs, candidates, idx, jobs_to_evaluate,
                   prompt, result, update_data, failedAt, last, retry, modelCalls,
                   cleanStart, converging>>
    /\ UNCHANGED <<startup, provider>>

\* The upsert raises: caught by the iteration's "except Exception".
UpsertFails ==
    /\ pc = "Upsert"
    /\ k <= Len(result.evaluations)
    /\ Requested(result.evaluations[k].key, jobs_to_evaluate)
    /\ EndIteration("write_error")
    /\ UNCHANGED <<store, jobs, candidates, failedAt, modelCalls, cleanStart>>
    /\ UNCHANGED <<startup, provider>>

\* The loop over the evaluations is over.
FinishCandidate ==
    /\ pc = "Upsert"
    /\ k > Len(result.evaluations)
    /\ EndIteration("persisted")
    /\ UNCHANGED <<store, jobs, candidates, failedAt, modelCalls, cleanStart>>
    /\ UNCHANGED <<startup, provider>>

\* The trigger (POST /analyze) starts the next run once the last one returned
\* or raised.
StartRun ==
    /\ pc \in {"Done", "Aborted"}
    /\ pc' = "FetchJobs"
    /\ jobs' = <<>>
    /\ candidates' = <<>>
    /\ idx' = 0
    /\ ResetLocals
    /\ failedAt' = "none"
    /\ last' = "none"
    /\ modelCalls' = 0
    /\ cleanStart' = CompleteAndScored(openJobs, candDB, scores)
    /\ converging' = TRUE
    /\ UNCHANGED <<store, retry>>
    /\ UNCHANGED <<startup, provider>>

Next ==
    \/ FetchJobs
    \/ FetchJobsFails
    \/ FetchCandidates
    \/ FetchCandidatesFails
    \/ SkipNoUrl
    \/ ReadCV
    \/ SelectWork
    \/ FetchScoresFails
    \/ Generate
    \/ Reconcile
    \/ UpdateCandidate
    \/ UpdateCandidateFails
    \/ SkipUnrequested
    \/ UpsertScore
    \/ UpsertFails
    \/ FinishCandidate
    \/ StartRun

Spec == Init /\ [][Next]_vars

(***************************************************************************)
(* The import of process_cvs.py: the provider is made from the             *)
(* environment, or the process exits.                                      *)
(***************************************************************************)
\* Before the import, for any environment.
ImportInit ==
    /\ BeforeRun({{"J1"}}, {<<Complete>>, <<CandidateRow(Ann, Phone, JNull)>>})
    /\ pc = "Import"
    /\ environ \in Environs
    /\ llm_provider = NoProvider

\* "try: llm_provider = LLMFactory.create_provider(llm_config)
\*  except Exception: exit(1)"; then the first run starts.
ImportModule ==
    /\ pc = "Import"
    /\ LET made == create_provider(ConfigProvider(environ), environ)
       IN  IF made.raised # "none"
           THEN /\ pc' = "Exited"
                /\ UNCHANGED llm_provider
           ELSE /\ pc' = "FetchJobs"
                /\ llm_provider' = made.value
    /\ UNCHANGED <<store, jobs, candidates, idx, locals, history, environ, provider>>

ImportNext == ImportModule \/ Next

SpecImport == ImportInit /\ [][ImportNext]_vars

(***************************************************************************)
(* Calls of generate_analysis on the provider made.                        *)
(***************************************************************************)
ProviderInit ==
    /\ BeforeRun({{}}, {<<>>})
    /\ pc = "Provider"
    /\ environ \in {e \in Environs :
                      create_provider(ConfigProvider(e), e).raised = "none"}
    /\ llm_provider = create_provider(ConfigProvider(environ), environ).value

\* One call: the transport answers r, the method returns.  The providers keep
\* no state between calls, so one call from each starting state shows them all.
Called(r, returned) ==
    /\ response' = r
    /\ analysis' = returned
    /\ pc' = "Returned"
    /\ UNCHANGED <<store, jobs, candidates, idx, locals, history, startup>>

GoogleGenerate ==
    /\ pc = "Provider"
    /\ llm_provider = "google"
    /\ \E r \in Responses : Called(r, GoogleGenerateAnalysis(r))

OpenAIGenerate ==
    /\ pc = "Provider"
    /\ llm_provider = "openai"
    /\ \E r \in Responses : Called(r, OpenAIGenerateAnalysis(r))

OllamaGenerate ==
    /\ pc = "Provider"
    /\ llm_provider = "ollama"
    /\ \E r \in Responses : Called(r, OllamaGenerateAnalysis(r))

ProviderNext == GoogleGenerate \/ OpenAIGenerate \/ OllamaGenerate

SpecProvider == ProviderInit /\ [][ProviderNext]_vars

(***************************************************************************)
(* Properties.                                                             *)
(***************************************************************************)
\* The steps of process_cvs that run before the loop over the candidates.
StartupSteps == {"FetchJobs", "FetchCandidates"}

\* The candidate's iteration is past the selection of its jobs.
Selected == pc \in {"Generate", "Reconcile", "UpdateCandidate", "Upsert"}

\* The keys of the evaluations that name a requested job, in insertion order.
RequestedKeys(evaluations, requested) ==
    LET keys == [i \in 1..Len(evaluations) |-> evaluations[i].key]
    IN  SelectSeq(keys, LAMBDA key : key \in Range(requested))

\* C1: once startup has succeeded a run never aborts: no failure that arises
\* while a candidate is handled leaves that candidate's iteration, so an
\* exception leaves process_cvs only before the loop over the candidates.
C1_NoFailureEscapesIteration ==
    pc = "Aborted" => failedAt \in StartupSteps

\* C2: when the iteration of a candidate A ends in a download error, an empty
\* text or an empty answer of the provider, the loop goes on with the next
\* candidate B from the loop head, with the fetched jobs and candidates and
\* the store as they were: B is processed as if A had not failed.
C2_FailureIsolated ==
    [][(/\ last' \in {"download_error", "empty_text", "empty_result"}
        /\ idx' = idx + 1)
       => /\ pc' = IF idx < Len(candidates) THEN "Candidate" ELSE "Done"
          /\ failedAt' = "none"
          /\ UNCHANGED <<store, jobs, candidates>>]_vars

\* C2 witness: the first candidate got an empty answer and the second one,
\* in the same run, has a score upserted.
C2_Witness ==
    /\ idx = 2
    /\ last = "empty_result"
    /\ pc = "Upsert"
    /\ upserts # <<>>
    /\ \E r \in scores : r.candidate_id = candidates[2].id

\* C3: idempotence.  A run that starts with every candidate's info complete
\* and every (candidate, open job) pair scored calls the provider for no
\* candidate, issues no write and changes no table, so the next run starts
\* the same way.
C3_Idempotent ==
    [][cleanStart =>
          /\ UNCHANGED store
          /\ modelCalls' = 0
          /\ writeCalls' = 0
          /\ cleanStart']_vars

\* C3 witness: a run over scored candidates, started complete, is over and
\* its last candidate was skipped with nothing to do.
C3_Witness ==
    /\ cleanStart
    /\ pc = "Done"
    /\ Len(candidates) >= 1
    /\ jobs # <<>>
    /\ scores # {}
    /\ last = "nothing_to_do"

\* C4: full re-evaluation.  For a candidate whose name is placeholder-like or
\* whose phone is missing, jobs_to_evaluate is the whole list of fetched open
\* jobs whatever score rows exist, and the candidate is never skipped for
\* having nothing to do.
C4_FullReevaluation ==
    /\ (Selected /\ PlaceholderLike(candidates[idx].row))
          => jobs_to_evaluate = jobs
    /\ (pc \in {"Candidate", "Done"} /\ idx >= 2 /\ last = "nothing_to_do")
          => ~PlaceholderLike(candidates[idx - 1].row)

\* C4 witness: a placeholder-named candidate with a score row for every open
\* job is evaluated against all of them again.
C4_Witness ==
    /\ pc = "Generate"
    /\ PlaceholderLike(candidates[idx].row)
    /\ Len(jobs) = 2
    /\ Range(jobs) \subseteq ExistingJobIds(scores, candidates[idx].id)
    /\ jobs_to_evaluate = jobs

\* The position of a job id in the fetched list.
PositionIn(q, x) == CHOOSE i \in 1..Len(q) : q[i] = x

\* C5: incremental selection.  For a candidate that needs no info update,
\* jobs_to_evaluate is exactly the fetched open jobs without a score row of
\* this candidate, each once, in the order of the fetched list; and such a
\* candidate is skipped for having nothing to do only when every fetched job
\* has a score row.
C5_IncrementalSelection ==
    /\ (pc = "Generate" /\ ~PlaceholderLike(candidates[idx].row))
          => /\ Range(jobs_to_evaluate) =
                    Range(jobs) \ {r.job_posting_id :
                                      r \in {x \in scores :
                                              x.candidate_id = candidates[idx].id}}
             /\ \A a, b \in 1..Len(jobs_to_evaluate) :
                    a < b => PositionIn(jobs, jobs_to_evaluate[a])
                               < PositionIn(jobs, jobs_to_evaluate[b])
    /\ (pc \in {"Candidate", "Done"} /\ idx >= 2 /\ last = "nothing_to_do")
          => \A j \in Range(jobs) :
                \E r \in scores : /\ r.candidate_id = candidates[idx - 1].id
                                  /\ r.job_posting_id = j

\* C5 witness: of two fetched jobs the candidate has a score for the first
\* one only, and the second one alone is selected.
C5_Witness ==
    /\ pc = "Generate"
    /\ ~PlaceholderLike(candidates[idx].row)
    /\ Len(jobs) = 2
    /\ jobs_to_evaluate = <<jobs[2]>>
    /\ \E r \in scores : /\ r.candidate_id = candidates[idx].id
                         /\ r.job_posting_id = jobs[1]

\* C6: store invariant.  Every score row a step writes is keyed by the
\* candidate being handled and by a job that is among the open jobs fetched
\* by this run and among the jobs listed in the prompt sent for that
\* candidate; no other row of the table appears or changes.
C6_OnlyRequestedJobsPersisted ==
    [][\A r \in scores' \ scores :
          /\ r.candidate_id = candidates[idx].id
          /\ r.job_posting_id \in Range(prompt)
          /\ r.job_posting_id \in Range(jobs)
          /\ r.job_posting_id \in openJobs]_vars

\* C6 witness: the answer held an evaluation for a job that was not in the
\* prompt, which was passed over, and a requested one, which was upserted.
C6_Witness ==
    /\ pc = "Upsert"
    /\ upserts # <<>>
    /\ \E i \in 1..(k - 1) : result.evaluations[i].key \notin Range(prompt)
    /\ \E r \in scores : r.candidate_id = candidates[idx].id

\* C7: reconciler output.  When a candidate's iteration ends after the
\* provider answered, and no storage write failed, the score upserts made for
\* the candidate are exactly the evaluations keyed by a requested job, in the
\* insertion order of the evaluations.
C7_UpsertsAreTheRequestedEntries ==
    [][(/\ pc \in {"Reconcile", "UpdateCandidate", "Upsert"}
        /\ idx' = idx + 1
        /\ last' # "write_error")
       => upserts = RequestedKeys(result.evaluations, jobs_to_evaluate)]_vars

\* A value of extracted_info that is neither missing, null nor empty.
NonNullNonEmpty(v) ==
    /\ v.t \notin {"absent", "null"}
    /\ ~(v.t = "str" /\ v.s = <<>>)

\* C8: null-preserving update.  update_data holds a field only when
\* extracted_info holds a non-null, non-empty value for it; a field that is
\* not in update_data keeps its stored value through the candidate's update;
\* and when update_data is empty no candidate write is issued.
C8_NullPreservingUpdate ==
    pc \in {"UpdateCandidate", "Upsert"} =>
        /\ \A f \in Fields :
              /\ update_data[f].t # "absent"
                    => NonNullNonEmpty(result.extracted_info[f])
              /\ update_data[f].t = "absent"
                    => candDB[candidates[idx].id][f] = candidates[idx].row[f]
        /\ (update_data = NoInfo /\ upserts = <<>>) => writeCalls = 0

\* C8 witness: extracted_info {full_name: null, phone: "555-1234"} was written
\* to a candidate without a phone: the phone is stored, the name is as before.
C8_Witness ==
    /\ pc = "Upsert"
    /\ result.extracted_info = Info(JNull, JAbsent, Phone, JAbsent, JAbsent)
    /\ candidates[idx].row.phone = JNull
    /\ candDB[candidates[idx].id].phone = Phone
    /\ candDB[candidates[idx].id].full_name = candidates[idx].row.full_name
    /\ writeCalls = 1

\* C9: numeric coercion.  A years_of_experience that int(float(.)) converts
\* is written as that integer; for every value the conversion fails on, the
\* field is left out of update_data, no error leaves the reconcile step, and
\* the reconcile goes on to the candidate update and the score upserts.
C9_CoercionFailureIsDropped ==
    [][(pc = "Reconcile" /\ result.extracted_info.years_of_experience.t
                               \notin {"absent", "null"})
       => LET y == result.extracted_info.years_of_experience
          IN  /\ pc' \in {"UpdateCandidate", "Upsert"}
              /\ update_data'.years_of_experience =
                    IF IntOfFloat(y).kind = "ok" THEN JInt(IntOfFloat(y).n)
                    ELSE JAbsent]_vars

\* C10: empty model result.  The step on which the provider returns the empty
\* mapping ends the candidate's iteration with no write issued and the store
\* unchanged; and the next time the candidate's work is selected (the jobs and
\* the candidate's data being unchanged) jobs_to_evaluate holds the same set
\* of jobs and the provider is called for the candidate again.
C10_EmptyResultIsRetried ==
    [][/\ (pc = "Generate" /\ last' = "empty_result" /\ idx' = idx + 1)
          => (UNCHANGED store /\ writeCalls = 0)
       /\ (/\ pc = "FetchScores"
           /\ retry[candidates[idx].id].empty
           /\ pc' # "Aborted")
          => /\ pc' = "Generate"
             /\ Range(jobs_to_evaluate') = retry[candidates[idx].id].batch]_vars

\* C10 witness: a candidate whose last answer was empty has its work selected
\* again in a later run, with the same jobs.
C10_Witness ==
    /\ pc = "Generate"
    /\ retry[candidates[idx].id].empty
    /\ Range(jobs_to_evaluate) = retry[candidates[idx].id].batch
    /\ scores # {}

\* C11: every score row persisted has its five scores each an integer in
\* [0,100], whatever the model answered; a score field missing from the
\* evaluation is stored as 0 and a missing analysis as an empty blob.
C11_ScoresInRangeWithDefaults ==
    [][\A r \in scores' \ scores :
          LET eval_data == result.evaluations[k].data
          IN  /\ \A f \in ScoreFields :
                    /\ r[f].t = "int"
                    /\ r[f].n \in 0..100
                    /\ eval_data[f].t = "absent" => r[f] = JInt(0)
              /\ eval_data.analysis.t = "absent" => r.score_details = JObj(0)]_vars

\* C12: upsert key uniqueness.  The score table never holds two rows for one
\* (candidate_id, job_posting_id); a write for a pair leaves exactly one row
\* for it, holding the values just written, also when the pair had a row with
\* other values, and leaves the rows of every other pair as they were.
C12_OneRowPerPair ==
    [][/\ \A r1, r2 \in scores' :
              (/\ r1.candidate_id = r2.candidate_id
               /\ r1.job_posting_id = r2.job_posting_id) => r1 = r2
       /\ (pc = "Upsert" /\ Len(upserts') = Len(upserts) + 1) =>
              LET c == candidates[idx].id
                  j == result.evaluations[k].key
                  written == ScoreData(c, j, result.evaluations[k].data)
                  ThisPair(r) == r.candidate_id = c /\ r.job_posting_id = j
              IN  /\ {r \in scores' : ThisPair(r)} = {written}
                  /\ {r \in scores' : ~ThisPair(r)} = {r \in scores : ~ThisPair(r)}]_vars

\* C12 witness: a pair that had a row with full scores was written again with
\* an evaluation without fields; the table holds the later values.
C12_Witness ==
    /\ pc = "Upsert"
    /\ "J1" \in replaced
    /\ \E i \in 1..(k - 1) : /\ result.evaluations[i].key = "J1"
                             /\ result.evaluations[i].data = EvalBare
    /\ \E r \in scores : /\ r.candidate_id = candidates[idx].id
                         /\ r.job_posting_id = "J1"
                         /\ r.overall_score = JInt(0)
    /\ Cardinality(scores) = 2

\* C13: when the jobs selected for a candidate are none, the candidate is
\* skipped in that step: its iteration is over, the provider has not been
\* called for it, and no candidate record and no score row is written.
C13_EmptyBatchSkipsCandidate ==
    [][(/\ pc = "FetchScores"
        /\ pc' # "Aborted"
        /\ JobsToEvaluate(candidates[idx].row, jobs,
                          ExistingJobIds(scores, candidates[idx].id)) = <<>>)
       => /\ idx' = idx + 1
          /\ pc' \in {"Candidate", "Done"}
          /\ modelCalls' = modelCalls
          /\ writeCalls' = 0
          /\ UNCHANGED store]_vars

\* C13 witness: the first of two candidates was skipped with nothing to
\* evaluate and without a provider call; the second one is being evaluated.
C13_Witness ==
    /\ idx = 2
    /\ last = "nothing_to_do"
    /\ pc = "Generate"
    /\ modelCalls = 0
    /\ \A j \in Range(jobs) :
          \E r \in scores : r.candidate_id = candidates[1].id /\ r.job_posting_id = j

\* C14: candidates are handled one after another, in the order fetched; the
\* provider is called only by the one call of a candidate's iteration, once,
\* with a prompt listing all of the candidate's jobs_to_evaluate, and the
\* iteration never comes back to the call; so the calls of a run are never
\* more than the fetched candidates, whatever the number of jobs.
C14_OneCallPerCandidate ==
    [][/\ modelCalls' <= Len(candidates')
       /\ (modelCalls' # modelCalls /\ pc' # "FetchJobs")
             => /\ pc = "Generate"
                /\ modelCalls' = modelCalls + 1
                /\ pc' # "Generate"
                /\ prompt = jobs_to_evaluate
                /\ prompt # <<>>
       /\ (pc' = "Generate" /\ pc # "Generate")
             => (pc = "FetchScores" /\ idx' = idx)
       /\ (pc' = "FetchScores" /\ pc # "FetchScores")
             => (pc = "Candidate" /\ idx' = idx)
       /\ (pc' = "Candidate")
             => \/ pc = "FetchCandidates" /\ idx' = 1
                \/ idx' = idx + 1 /\ candidates' = candidates]_vars

\* C14 witness: a run over two candidates and two jobs made two provider
\* calls, the second one answered with two evaluations.
C14_Witness ==
    /\ pc = "Upsert"
    /\ idx = 2
    /\ Len(candidates) = 2
    /\ Len(jobs_to_evaluate) = 2
    /\ modelCalls = 2
    /\ Len(upserts) = 2

\* C18: persist ordering under partial failure.  The candidate update is
\* issued before any score upsert of the candidate, so an upsert finds the
\* fields of update_data already stored; the upserts follow the order of the
\* evaluations; and when a write fails the store keeps what was written for
\* the candidate, its iteration ends with no further write, and the run goes
\* on with the next candidate.
C18_PersistOrderAndPartialFailure ==
    [][/\ pc = "UpdateCandidate" => (upserts = <<>> /\ writeCalls = 0)
       /\ Len(upserts') = Len(upserts) + 1
             => /\ \A f \in Fields :
                      update_data[f].t # "absent"
                         => candDB[candidates[idx].id][f] = update_data[f]
                /\ upserts' = RequestedKeys(SubSeq(result.evaluations, 1, k),
                                            jobs_to_evaluate)
       /\ (last' = "write_error" /\ idx' = idx + 1)
             => /\ UNCHANGED store
                /\ \A j \in Range(upserts) :
                      \E r \in scores' : /\ r.candidate_id = candidates[idx].id
                                          /\ r.job_posting_id = j
                /\ pc = "Upsert" =>
                      \A f \in Fields :
                         update_data[f].t # "absent"
                            => candDB'[candidates[idx].id][f] = update_data[f]
                /\ pc' = (IF idx < Len(candidates) THEN "Candidate" ELSE "Done")
                /\ failedAt' = "none"
                /\ writeCalls' = 0]_vars

\* C18 witness: for the first of two candidates the update and the upsert of
\* the first job were written and a later write failed; both stay stored and
\* the run is at the second candidate.
C18_Witness ==
    /\ idx = 2
    /\ pc = "Candidate"
    /\ last = "write_error"
    /\ Len(jobs) = 2
    /\ candDB[1].full_name = Bo
    /\ {r.job_posting_id : r \in {x \in scores : x.candidate_id = 1}} = {"J1"}

\* C19: convergence.  When in a run every candidate's CV gave text and every
\* answer of the provider held a full_name that is no placeholder, a
\* non-empty phone and an evaluation for each requested job (the storage
\* calls succeeding, and there being an open job), then at the end of the run
\* every candidate has complete info and every (candidate, open job) pair has
\* a score row; and a run that starts from such data makes no provider call
\* and no write.
C19_Convergence ==
    /\ (pc = "Done" /\ converging /\ jobs # <<>>)
          => CompleteAndScored(openJobs, candDB, scores)
    /\ cleanStart => (modelCalls = 0 /\ writeCalls = 0)

\* C15: generate_analysis of each provider returns the parsed result or the
\* empty mapping: a transport error, a response without content and a text
\* json.loads cannot parse all give {}, and no exception reaches the caller.
C15_ProviderReturnsResultOrEmpty ==
    pc = "Returned" =>
        LET cleaned == CASE llm_provider = "google" -> GoogleText(response.text)
                         [] llm_provider = "openai" -> OpenAIText(response.text)
                         [] llm_provider = "ollama" -> OllamaText(response.text)
        IN  /\ analysis.raised = "none"
            /\ analysis.value \in {<<>>, <<Doc>>}
            /\ response.kind # "text" => analysis.value = <<>>
            /\ (response.kind = "text" /\ Doc \notin Range(response.text))
                  => analysis.value = <<>>
            /\ (response.kind = "text" /\ Strip(cleaned) # <<Doc>>)
                  => analysis.value = <<>>
            /\ (response.kind = "text" /\ Strip(cleaned) = <<Doc>>)
                  => analysis.value = <<Doc>>

\* C15 witness: the Ollama provider got a fenced block that is not JSON and
\* returned the empty mapping.
C15_Witness ==
    /\ pc = "Returned"
    /\ llm_provider = "ollama"
    /\ response = [kind |-> "text", text |-> <<FenceJson, Prose, Fence>>]
    /\ analysis = EmptyMapping

\* The provider name, lowered, is none of the three, or the key of the
\* provider it names is not in the environment.
BadConfiguration(name) ==
    \/ name \notin {Google, OpenAI, Ollama}
    \/ name = Google /\ environ.GOOGLE_API_KEY = JNull
    \/ name = OpenAI /\ environ.OPENAI_API_KEY = JNull

\* After a bad configuration the import ends in the exit of the process, with
\* no provider, nothing fetched and nothing written; no step follows an exit.
ExitsAtImport(bad) ==
    /\ pc # "Exited"
    /\ (pc = "Import" /\ bad)
          => /\ pc' = "Exited"
             /\ llm_provider' = NoProvider
             /\ jobs' = <<>> /\ candidates' = <<>>
             /\ modelCalls' = 0 /\ writeCalls' = 0
             /\ UNCHANGED store

\* C16 as stated: construction fails for every provider name other than
\* google, openai and ollama, and when the key of the selected provider is
\* missing; the process then exits before any fetch and any write.
C16_AsStated ==
    [][ExitsAtImport(BadConfiguration(ConfigProvider(environ).s))]_vars

\* C16 amended: construction fails for every provider name that, in lower
\* case, is other than google, openai and ollama, and when the key of the
\* selected provider is missing; the process then exits before any fetch and
\* any write.
C16_BadConfigurationExits ==
    [][ExitsAtImport(BadConfiguration(Lower(ConfigProvider(environ).s)))]_vars

\* C16 witness: the process exited on the provider name azure, having
\* fetched and written nothing.
C16_Witness ==
    /\ pc = "Exited"
    /\ environ.LLM_PROVIDER = JStr(<<"a", "z", "u", "r", "e">>)
    /\ environ.GOOGLE_API_KEY = ApiKey
    /\ llm_provider = NoProvider
    /\ jobs = <<>>
    /\ scores = {}

\* C17: for every response text of prose, markers and a JSON document the
\* Ollama provider hands to the parser a text that parses as the text the
\* Google provider hands to it does, so the two providers return the same
\* result: the same parsed object, or both the empty mapping.
C17_SameFenceHandling ==
    (pc = "Returned" /\ response.kind = "text") =>
        /\ json_loads(OllamaText(response.text)) = json_loads(GoogleText(response.text))
        /\ OllamaGenerateAnalysis(response) = GoogleGenerateAnalysis(response)

====
